---- MODULE Spec2Model ----
(***************************************************************************)
(* ssdp-forwarder (src/main.go): one multicast listen socket and one send  *)
(* socket per (group, interface, port) triple, one forwarding goroutine    *)
(* per triple, and the main goroutine that provisions the sockets, starts  *)
(* the goroutines, installs the signal handler, joins the goroutines and   *)
(* closes the sockets.                                                     *)
(*                                                                         *)
(* Indices are 1-based here (Go's index k is k+1).  A triple <<g, i, p>>   *)
(* names conns[g][i][p] / senders[g][i][p] and the goroutine started with  *)
(* (gIdx, iIdx, pIdx) = (g, i, p).                                         *)
(***************************************************************************)
EXTENDS Integers, Sequences, FiniteSets, TLC

(* ------------------------------ bounds --------------------------------- *)
MaxGroups == 2
MaxIfaces == 3
MaxPorts == 2
\* largest number of forwarding goroutines (numGroups*numIfaces*numPorts)
MaxWorkers == 4
\* longest datagram payload
MaxLen == 1
\* longest port string given to parsePorts
MaxDigits == 5
\* how many times a looped-back datagram is followed through the relay
MaxHops == 1

\* Half as many goroutines are followed where more of the input varies: on a host
\* whose kernel loops multicast back to local listeners, with -d ports in use, with
\* -v, with datagrams of different payloads, and in the check of whole behaviours.
MaxSmallWorkers == MaxWorkers \div 2

(* --------------------------- state ------------------------------------- *)
VARIABLES
  groups,      \* groupStrs: 0 is a literal net.ParseIP rejects, g > 0 an address
  ifaces,      \* ifaceNames: 0 is a name net.InterfaceByName does not find
  portStrs,    \* portStrs: the strings of the -p list, each a sequence of characters
  ports,       \* ports (listen ports)
  destGiven,   \* *destPortsFlag != "": the -d flag is given
  destIn,      \* the parsed -d list; << >> when the flag is not given
  destPorts,   \* destPorts as main computes it (<< >> until then)
  verbose,     \* *verboseFlag (-v)
  mcastLoop,   \* host: the kernel delivers a sent multicast datagram to local members
  traffic,     \* network: the payloads of the datagrams other hosts send to the groups
  mainPc,      \* position of the main goroutine
  mainIdx,     \* position of main's current loop in the triple order
  fatalMsg,    \* which log.Fatalf ended the process ("" = none)
  conns,       \* conns[g][i][p]: fd of the listen socket, 0 = nil
  senders,     \* senders[g][i][p]: fd of the send socket, 0 = nil
  sock,        \* fd -> what the socket is bound / connected to
  closedFds,   \* fds on which Close() was called
  wg,          \* sync.WaitGroup counter
  cancelled,   \* ctx.Done() is closed
  notified,    \* signal.Notify(sigChan, SIGINT, SIGTERM) is in effect
  sigChan,     \* number of signals buffered in sigChan (capacity 1)
  handlerPc,   \* the goroutine of handleShutdown
  wpc,         \* position of each forwarding goroutine
  lconn,       \* each goroutine's local lconn (fd)
  buf,         \* each goroutine's scratch buffer buf
  dgram,       \* per goroutine: the bytes of the datagram the network delivered to
               \* its current receive (<< >> between datagrams)
  otherIfIdx,  \* each goroutine's fan-out loop variable
  packet,      \* each goroutine's packet (the datagram being forwarded)
  wrote,       \* per goroutine: the Write calls made for the current datagram
  werr,        \* per goroutine: a Write for the current datagram has failed
  logged,      \* per goroutine: the verbose log lines it wrote for its last datagram
  inbox        \* per listen socket (triple): a datagram the kernel looped back to it

cfgVars == <<groups, ifaces, portStrs, ports, destGiven, destIn, verbose, mcastLoop, traffic>>
mainVars == <<mainPc, mainIdx, fatalMsg, destPorts>>
sockVars == <<conns, senders, sock, closedFds>>
sigVars == <<cancelled, notified, sigChan, handlerPc>>
workerVars == <<wpc, lconn, buf, dgram, otherIfIdx, packet, wrote, werr, logged, wg>>
vars == <<cfgVars, mainVars, sockVars, sigVars, workerVars, inbox>>

(* --------------------------- helpers ----------------------------------- *)
numGroups == Len(groups)
numIfaces == Len(ifaces)
numPorts == Len(ports)

\* the index space of conns / senders (lines 179-189) and of the goroutines
Triples == (1..numGroups) \X (1..numIfaces) \X (1..numPorts)
NumTriples == numGroups * numIfaces * numPorts

\* the k-th triple in the order of the nested range loops (g outermost, p innermost)
TripleAt(k) ==
  <<((k - 1) \div (numIfaces * numPorts)) + 1,
    (((k - 1) \div numPorts) % numIfaces) + 1,
    ((k - 1) % numPorts) + 1>>

NoPkt == [data |-> << >>, hops |-> -1]
\* line 21: the length of the scratch buffer (65535), here the longest datagram
BufferLen == MaxLen
Payloads == UNION {[1..n -> {7}] : n \in 0..MaxLen}

ParseIP(g) == g # 0
InterfaceByName(n) == n # 0

IsOpen(fd) == fd \in 1..Len(sock) /\ fd \notin closedFds

\* the process is running: not returned from main, not ended by log.Fatalf, not killed
Alive == mainPc \notin {"exited", "fatal", "killed"}

\* the status the process ends with: 0 when main returns (line 142), 1 from
\* log.Fatalf, 2 for a death by signal (-1: still running)
ExitStatus ==
  CASE mainPc = "exited" -> 0
    [] mainPc = "fatal" -> 1
    [] mainPc = "killed" -> 2
    [] OTHER -> -1

(* --------------------------- parsePorts (158-171) ---------------------- *)
DecimalDigits == <<"0", "1", "2", "3", "4", "5", "6", "7", "8", "9">>
IsDigit(c) == \E d \in 1..10 : DecimalDigits[d] = c
DigitVal(c) == (CHOOSE d \in 1..10 : DecimalDigits[d] = c) - 1

\* the value of a sequence of decimal digits
RECURSIVE DecValue(_)
DecValue(ds) ==
  IF ds = << >> THEN 0
  ELSE 10 * DecValue(SubSeq(ds, 1, Len(ds) - 1)) + DigitVal(ds[Len(ds)])

\* line 162: fmt.Sscanf(p, "%d", &port) reads an optional sign and the digits that
\* follow it; it fails when there is no digit there, and it does not look at what
\* comes after the digits
HasSign(p) == Len(p) > 0 /\ p[1] \in {"+", "-"}
\* the number of digits after the sign
RECURSIVE DigitRun(_, _)
DigitRun(p, from) ==
  IF from <= Len(p) /\ IsDigit(p[from]) THEN 1 + DigitRun(p, from + 1) ELSE 0
Sscanf(p) ==
  LET first == IF HasSign(p) THEN 2 ELSE 1
      n == DigitRun(p, first)
      v == DecValue(SubSeq(p, first, first + n - 1))
  IN  [err |-> n = 0, port |-> IF HasSign(p) /\ p[1] = "-" THEN 0 - v ELSE v]

\* line 165: the largest port
PortMax == 65535

\* lines 161-168: one iteration of parsePorts: does string p give an error?
PortError(p) ==
  \/ Sscanf(p).err
  \/ Sscanf(p).port <= 0
  \/ Sscanf(p).port > PortMax

\* lines 158-171: nil and an error at the first string that gives one, else the ports
parsePorts(strs) ==
  IF \E k \in 1..Len(strs) : PortError(strs[k])
    THEN [err |-> TRUE, ports |-> << >>]
    ELSE [err |-> FALSE, ports |-> [k \in 1..Len(strs) |-> Sscanf(strs[k]).port]]

(* --------------------------- initial states ---------------------------- *)
ListenPorts(n) == [k \in 1..n |-> 1900 + k]
\* the -p strings that give them
ListenPortStrs(n) == [k \in 1..n |-> <<"1", "9", "0", DecimalDigits[k + 1]>>]
\* -d: not given, or given with no port in it (<< >>); given with other ports;
\* given with one port too many; given and equal to the listen ports
DestChoices(n, lp) ==
  {<< >>, [k \in 1..n |-> 2020 + k], [k \in 1..(n + 1) |-> 2020 + k]}
    \cup (IF lp THEN {[k \in 1..n |-> 1900 + k]} ELSE {})

\* nothing is provisioned or started yet
CoreInit ==
  /\ destPorts = << >>
  /\ mainIdx = 1
  /\ fatalMsg = ""
  /\ conns = [t \in Triples |-> 0]
  /\ senders = [t \in Triples |-> 0]
  /\ sock = << >>
  /\ closedFds = {}
  /\ wg = 0
  /\ cancelled = FALSE
  /\ notified = FALSE
  /\ sigChan = 0
  /\ handlerPc = "none"
  /\ wpc = [t \in Triples |-> "none"]
  /\ lconn = [t \in Triples |-> 0]
  /\ buf = [t \in Triples |-> [k \in 1..BufferLen |-> 0]]
  /\ dgram = [t \in Triples |-> << >>]
  /\ otherIfIdx = [t \in Triples |-> 0]
  /\ packet = [t \in Triples |-> NoPkt]
  /\ wrote = [t \in Triples |-> << >>]
  /\ werr = [t \in Triples |-> FALSE]
  /\ logged = [t \in Triples |-> << >>]
  /\ inbox = [t \in Triples |-> NoPkt]

Init ==
  /\ \E ng \in 1..MaxGroups, ni \in 1..MaxIfaces, np \in 1..MaxPorts,
        bg \in 0..MaxGroups, bi \in 0..MaxIfaces, lp \in BOOLEAN :
       /\ ng * ni * np <= (IF lp THEN MaxSmallWorkers ELSE MaxWorkers)
       /\ bg <= ng /\ bi <= ni
       /\ lp => (bg = 0 /\ bi = 0)
       /\ groups = [g \in 1..ng |-> IF g = bg THEN 0 ELSE g]
       /\ ifaces = [i \in 1..ni |-> IF i = bi THEN 0 ELSE i]
       /\ portStrs = ListenPortStrs(np)
       /\ ports = ListenPorts(np)
       /\ parsePorts(portStrs) = [err |-> FALSE, ports |-> ports]
       /\ destIn \in DestChoices(np, lp)
       /\ destGiven \in BOOLEAN
       /\ destIn # << >> => destGiven
       /\ Len(destIn) = np => ng * ni * np <= MaxSmallWorkers
       /\ mcastLoop = lp
       /\ traffic \in {{d} : d \in Payloads}
                      \cup (IF ng * ni * np <= MaxSmallWorkers /\ ~lp THEN {Payloads} ELSE {})
       /\ ng * ni * np > MaxSmallWorkers => traffic = {[k \in 1..MaxLen |-> 7]}
       /\ verbose \in BOOLEAN
       /\ verbose => (ng * ni * np <= MaxSmallWorkers /\ ~lp /\ bg = 0 /\ bi = 0)
  /\ mainPc = "destPorts"
  /\ CoreInit

(* The start states for parsePorts: main at line 97, with one string of the -p
   list drawn from all strings over a digit below and one above 5, a letter
   and the minus sign, alone or next to a well-formed port *)
PortChars == {"0", "7", "a", "-"}
PortStrings == UNION {[1..n -> PortChars] : n \in 0..MaxDigits}
ParseInputs ==
  UNION {{<<x>>, <<x, <<"7">>>>, <<<<"7">>, x>>} : x \in PortStrings}

ParseInit ==
  /\ portStrs \in ParseInputs
  /\ ports = << >>
  /\ groups = <<1>>
  /\ ifaces = <<1>>
  /\ destGiven = FALSE
  /\ destIn = << >>
  /\ verbose = FALSE
  /\ mcastLoop = FALSE
  /\ traffic = {<< >>}
  /\ mainPc = "parsePorts"
  /\ CoreInit

(* --------------------------- main: startup ----------------------------- *)
\* log.Fatalf: the message is logged and the process ends with status 1
Fatalf(msg) ==
  /\ mainPc' = "fatal"
  /\ fatalMsg' = msg

\* lines 97-100: ports, err := parsePorts(portStrs); log.Fatalf on an error
MainParsePorts ==
  /\ mainPc = "parsePorts"
  /\ IF parsePorts(portStrs).err
       THEN /\ Fatalf("ports")
            /\ UNCHANGED ports
       ELSE /\ ports' = parsePorts(portStrs).ports
            /\ mainPc' = "destPorts"
            /\ UNCHANGED fatalMsg
  /\ UNCHANGED <<groups, ifaces, portStrs, destGiven, destIn, verbose, mcastLoop, traffic,
                 mainIdx, destPorts, sockVars, sigVars, workerVars, inbox>>

\* (mutant) only a list that is too short is rejected
DestLenShort == Len(destIn) < Len(ports)

\* line 115: len(destPorts) != len(ports)
DestLenMismatch == Len(destIn) # Len(ports)

\* lines 107-121: -d handling
MainDestPorts ==
  /\ mainPc = "destPorts"
  /\ IF destGiven
       THEN IF DestLenMismatch
              THEN /\ Fatalf("destports")
                   /\ UNCHANGED destPorts
              ELSE /\ destPorts' = destIn
                   /\ mainPc' = "init"
                   /\ UNCHANGED fatalMsg
       ELSE /\ destPorts' = ports
            /\ mainPc' = "init"
            /\ UNCHANGED fatalMsg
  /\ UNCHANGED <<cfgVars, mainIdx, sockVars, sigVars, workerVars, inbox>>

(* ----------------- main: initializeConnections (174-247) --------------- *)
InitAt(t) ==
  /\ mainPc = "init"
  /\ mainIdx <= NumTriples
  /\ t = TripleAt(mainIdx)

\* line 192-195: the group is parsed when the outer loop enters it
InitGroupFail ==
  \E t \in Triples :
    /\ InitAt(t)
    /\ t[2] = 1 /\ t[3] = 1
    /\ ~ParseIP(groups[t[1]])
    /\ Fatalf("group")
    /\ UNCHANGED <<cfgVars, mainIdx, destPorts, sockVars, sigVars, workerVars, inbox>>

\* lines 198-206: the interface is resolved when the middle loop enters it
InitIfaceFail ==
  \E t \in Triples :
    /\ InitAt(t)
    /\ t[3] = 1
    /\ ParseIP(groups[t[1]])
    /\ ~InterfaceByName(ifaces[t[2]])
    /\ Fatalf("iface")
    /\ UNCHANGED <<cfgVars, mainIdx, destPorts, sockVars, sigVars, workerVars, inbox>>

InitCanOpen(t) ==
  /\ InitAt(t)
  /\ ParseIP(groups[t[1]])
  /\ InterfaceByName(ifaces[t[2]])

\* what ListenMulticastUDP (209-215) and DialUDP (225-231) create for triple t
ListenSock(t) ==
  [kind |-> "listen", group |-> groups[t[1]], iface |-> ifaces[t[2]], port |-> ports[t[3]]]
\* (mutant) every send socket targets the first destination port
DestPortFirst(p) == destPorts[1]

\* line 225: destPort := destPorts[p]
DestPortAt(p) == destPorts[p]

SendSock(t) ==
  [kind |-> "send", group |-> groups[t[1]], iface |-> ifaces[t[2]], port |-> DestPortAt(t[3])]

\* (mutant) the failure is logged and the loop goes on to the next triple
OpenFailedContinue(msg) ==
  /\ fatalMsg' = msg
  /\ mainIdx' = mainIdx + 1
  /\ UNCHANGED mainPc

\* what main does when an open fails (216-219, 232-235): log.Fatalf
OpenFailed(msg) ==
  /\ Fatalf(msg)
  /\ UNCHANGED mainIdx

\* lines 215-219: ListenMulticastUDP fails
InitListenFail ==
  \E t \in Triples :
    /\ InitCanOpen(t)
    /\ OpenFailed("listen")
    /\ UNCHANGED <<cfgVars, destPorts, sockVars, sigVars, workerVars, inbox>>

\* lines 215-235: the listen socket is open, DialUDP fails
InitDialFail ==
  \E t \in Triples :
    /\ InitCanOpen(t)
    /\ sock' = Append(sock, ListenSock(t))
    /\ OpenFailed("dial")
    /\ UNCHANGED <<cfgVars, destPorts, conns, senders, closedFds, sigVars,
                   workerVars, inbox>>

\* lines 208-242: both sockets open and are stored in the registries
InitOpenPair ==
  \E t \in Triples :
    /\ InitCanOpen(t)
    /\ sock' = sock \o <<ListenSock(t), SendSock(t)>>
    /\ conns' = [conns EXCEPT ![t] = Len(sock) + 1]
    /\ senders' = [senders EXCEPT ![t] = Len(sock) + 2]
    /\ mainIdx' = mainIdx + 1
    /\ UNCHANGED <<cfgVars, mainPc, fatalMsg, destPorts, closedFds, sigVars,
                   workerVars, inbox>>

\* line 246 / 128-129: initializeConnections returns; ctx and wg are created
InitReturn ==
  /\ mainPc = "init"
  /\ mainIdx > NumTriples
  /\ mainPc' = "spawn"
  /\ mainIdx' = 1
  /\ UNCHANGED <<cfgVars, fatalMsg, destPorts, sockVars, sigVars, workerVars, inbox>>

(* ----------------- main: startForwarding (250-314) --------------------- *)
\* (mutant) every goroutine of a group and port reads the first interface's socket
LconnOfFirstIface(w) == conns[<<w[1], 1, w[3]>>]

\* line 258: the listen socket a goroutine reads
LconnOf(w) == conns[w]

\* (mutant) the goroutine is started without wg.Add(1)
WgAddMissing == wg

\* line 254: wg.Add(1)
WgAdd == wg + 1

\* lines 251-255: wg.Add(1); go func(gIdx, iIdx, pIdx) {...}(g, i, p)
\* (with the goroutine's lines 257-262, which read only what no longer changes)
Spawn ==
  /\ mainPc = "spawn"
  /\ mainIdx <= NumTriples
  /\ LET w == TripleAt(mainIdx) IN
       /\ wg' = WgAdd
       /\ wpc' = [wpc EXCEPT ![w] = "select"]
       /\ lconn' = [lconn EXCEPT ![w] = LconnOf(w)]
  /\ mainIdx' = mainIdx + 1
  /\ UNCHANGED <<cfgVars, mainPc, fatalMsg, destPorts, sockVars, sigVars,
                 buf, dgram, otherIfIdx, packet, wrote, werr, logged, inbox>>

\* line 314: startForwarding returns
SpawnReturn ==
  /\ mainPc = "spawn"
  /\ mainIdx > NumTriples
  /\ mainPc' = "notify"
  /\ UNCHANGED <<cfgVars, mainIdx, fatalMsg, destPorts, sockVars, sigVars,
                 workerVars, inbox>>

(* ----------------- main: handleShutdown (316-326) ---------------------- *)
\* lines 318-325: signal.Notify and the goroutine that waits on sigChan
HandleShutdown ==
  /\ mainPc = "notify"
  /\ notified' = TRUE
  /\ handlerPc' = "wait"
  /\ mainPc' = "wait"
  /\ UNCHANGED <<cfgVars, mainIdx, fatalMsg, destPorts, sockVars, cancelled, sigChan,
                 workerVars, inbox>>

\* lines 322-324: sig := <-sigChan; log; cancel()
HandlerRun ==
  /\ Alive
  /\ handlerPc = "wait"
  /\ sigChan > 0
  /\ sigChan' = sigChan - 1
  /\ cancelled' = TRUE
  /\ handlerPc' = "done"
  /\ UNCHANGED <<cfgVars, mainVars, sockVars, notified, workerVars, inbox>>

\* The operating system delivers SIGINT or SIGTERM.  Before signal.Notify the Go
\* runtime's default applies and the process dies; after it the signal is sent to
\* sigChan without blocking (dropped when the one-slot buffer is full).
\* (mutant) the relay to sigChan ends once the handler goroutine has taken a signal
RelayedUntilTaken == notified /\ handlerPc # "done"

\* line 319: after signal.Notify, SIGINT and SIGTERM are relayed to sigChan
Relayed == notified

Signal ==
  /\ Alive
  /\ IF Relayed
       THEN /\ sigChan' = IF sigChan < 1 THEN sigChan + 1 ELSE sigChan
            /\ UNCHANGED mainPc
       ELSE /\ mainPc' = "killed"
            /\ UNCHANGED sigChan
  /\ UNCHANGED <<cfgVars, mainIdx, fatalMsg, destPorts, sockVars, cancelled, notified,
                 handlerPc, workerVars, inbox>>

(* ----------------- main: shutdown (135-142, 329-342) ------------------- *)
\* (mutant) main does not wait for the goroutines
WaitReturnsAtOnce == TRUE

\* line 136: wg.Wait() returns when the counter is zero
WaitReturns == wg = 0

MainWait ==
  /\ mainPc = "wait"
  /\ WaitReturns
  /\ mainPc' = "close"
  /\ mainIdx' = 1
  /\ UNCHANGED <<cfgVars, fatalMsg, destPorts, sockVars, sigVars, workerVars, inbox>>

\* lines 330-339: one iteration of closeConnections
CloseStep ==
  /\ mainPc = "close"
  /\ mainIdx <= NumTriples
  /\ LET t == TripleAt(mainIdx) IN
       closedFds' = closedFds \cup ({conns[t], senders[t]} \ {0})
  /\ mainIdx' = mainIdx + 1
  /\ UNCHANGED <<cfgVars, mainPc, fatalMsg, destPorts, conns, senders, sock, sigVars,
                 workerVars, inbox>>

\* line 342: closeConnections returns
CloseReturn ==
  /\ mainPc = "close"
  /\ mainIdx > NumTriples
  /\ mainPc' = "alldone"
  /\ UNCHANGED <<cfgVars, mainIdx, fatalMsg, destPorts, sockVars, sigVars, workerVars,
                 inbox>>

\* lines 141-142: log "All done."; main returns and the process exits with status 0
MainAllDone ==
  /\ mainPc = "alldone"
  /\ mainPc' = "exited"
  /\ UNCHANGED <<cfgVars, mainIdx, fatalMsg, destPorts, sockVars, sigVars, workerVars,
                 inbox>>

(* ----------------- the forwarding goroutine (255-310) ------------------ *)
Running(w) == Alive /\ wpc[w] \in {"select", "read", "fanout", "logrecv"}

\* (mutant) the goroutine never looks at the context
CtxDoneIgnored == FALSE

\* line 266: case <-ctx.Done()
CtxDone == cancelled

\* lines 265-271: the select at the top of the loop
WSelect(w) ==
  /\ Alive
  /\ wpc[w] = "select"
  /\ IF CtxDone
       THEN /\ wpc' = [wpc EXCEPT ![w] = "exitCancel"]
            /\ wg' = wg - 1
       ELSE /\ wpc' = [wpc EXCEPT ![w] = "read"]
            /\ UNCHANGED wg
  /\ UNCHANGED <<cfgVars, mainVars, sockVars, sigVars, lconn, buf, dgram, otherIfIdx,
                 packet, wrote, werr, logged, inbox>>

\* (mutant) a timeout ends the goroutine as a cancellation does
TimeoutReturns == "exitCancel"

\* lines 277-279: on a timeout, continue: back to the select
TimeoutPc == "select"

\* lines 273-279: the read deadline passes with no datagram
WReadTimeout(w) ==
  /\ Alive
  /\ wpc[w] = "read"
  /\ IsOpen(lconn[w])
  /\ wpc' = [wpc EXCEPT ![w] = TimeoutPc]
  /\ UNCHANGED <<cfgVars, mainVars, sockVars, sigVars, lconn, buf, dgram, otherIfIdx,
                 packet, wrote, werr, logged, wg, inbox>>

\* (mutant) the read error is reported with log.Fatalf
ReadErrorFatal == Fatalf("read")

\* lines 280-281: the read error is reported with log.Printf
ReadErrorLogged == UNCHANGED <<mainPc, fatalMsg>>

\* (mutant) the goroutine closes its listen socket when it returns
ReturnClosesLconn(w) ==
  /\ closedFds' = closedFds \cup {lconn[w]}
  /\ UNCHANGED <<conns, senders, sock>>

\* line 282: return; the one deferred call is wg.Done() (256), no socket is closed
ReturnLeavesSockets(w) == UNCHANGED sockVars

\* lines 275-283: ReadFromUDP fails with an error that is no timeout
\* (the only outcome on a closed socket); the goroutine returns, wg.Done() runs
WReadError(w) ==
  /\ Alive
  /\ wpc[w] = "read"
  /\ wpc' = [wpc EXCEPT ![w] = "exitErr"]
  /\ wg' = wg - 1
  /\ ReadErrorLogged
  /\ ReturnLeavesSockets(w)
  /\ UNCHANGED <<cfgVars, mainIdx, destPorts, sigVars, lconn, buf, dgram,
                 otherIfIdx, packet, wrote, werr, logged, inbox>>

\* (mutant) no interface is skipped
SkipPeerNever(w, j) == FALSE

\* line 290: the interface the datagram came in on is skipped
SkipPeer(w, j) == j = w[2]

\* lines 289-292: the first index from j on that the range loop does not skip
\* (numIfaces + 1 when the range is exhausted)
NextPeer(w, j) ==
  IF \E k \in j..numIfaces : ~SkipPeer(w, k)
    THEN CHOOSE k \in j..numIfaces :
           /\ ~SkipPeer(w, k)
           /\ \A m \in j..(k - 1) : SkipPeer(w, m)
    ELSE numIfaces + 1

\* (mutant) a goroutine that finds the context cancelled drops the datagram in hand
LoopPcUntilCancelled(nxt) ==
  IF cancelled THEN "exitCancel" ELSE IF nxt > numIfaces THEN "logrecv" ELSE "fanout"

\* (mutant) the goroutine starts its next receive while peers are still to be written
LoopPcNextReceive(nxt) == IF nxt > numIfaces THEN "logrecv" ELSE "read"

\* where the goroutine is once its loop variable is nxt: in the loop, or past it
LoopPc(nxt) == IF nxt > numIfaces THEN "logrecv" ELSE "fanout"

\* line 293: senders[gIdx][otherIfIdx][pIdx]
SenderFor(w, j) == senders[<<w[1], j, w[3]>>]

\* (mutant) the whole buffer is taken as the packet
CopyWholeBuf(n) == BufferLen

\* lines 285-286: packet := make([]byte, n); copy(packet, buf[:n])
CopyLen(n) == n

\* line 274: ReadFromUDP(buf) stores the datagram's bytes at the start of buf and
\* leaves the rest of buf as it was
ReadInto(b, data) ==
  [k \in 1..BufferLen |-> IF k <= Len(data) THEN data[k] ELSE b[k]]

\* lines 274, 285-292: a datagram is read and copied; the fan-out loop starts
Received(w, pkt) ==
  /\ buf' = [buf EXCEPT ![w] = ReadInto(@, pkt.data)]
  /\ dgram' = [dgram EXCEPT ![w] = pkt.data]
  /\ packet' = [packet EXCEPT ![w] =
                  [data |-> SubSeq(ReadInto(buf[w], pkt.data), 1, CopyLen(Len(pkt.data))),
                   hops |-> pkt.hops]]
  /\ otherIfIdx' = [otherIfIdx EXCEPT ![w] = NextPeer(w, 1)]
  /\ wrote' = [wrote EXCEPT ![w] = << >>]
  /\ werr' = [werr EXCEPT ![w] = FALSE]
  /\ logged' = [logged EXCEPT ![w] = << >>]
  /\ wpc' = [wpc EXCEPT ![w] = LoopPc(NextPeer(w, 1))]

\* a datagram from another host arrives on the goroutine's (group, interface, port)
WReadData(w) ==
  /\ Alive
  /\ wpc[w] = "read"
  /\ IsOpen(lconn[w])
  /\ \E d \in traffic : Received(w, [data |-> d, hops |-> 0])
  /\ UNCHANGED <<cfgVars, mainVars, sockVars, sigVars, lconn, wg, inbox>>

\* a datagram the kernel looped back to the goroutine's listen socket is read
WReadLooped(w) ==
  /\ Alive
  /\ wpc[w] = "read"
  /\ IsOpen(lconn[w])
  /\ inbox[w] # NoPkt
  /\ Received(w, inbox[w])
  /\ inbox' = [inbox EXCEPT ![w] = NoPkt]
  /\ UNCHANGED <<cfgVars, mainVars, sockVars, sigVars, lconn, wg>>

\* The kernel's multicast loopback: a datagram sent on socket fd is queued on every
\* open listen socket of this host that joined the same group on the same interface
\* and is bound to the port the datagram is addressed to (one slot per socket: a
\* datagram that finds the slot taken is dropped).
LoopedBack(fd, pkt) ==
  [l \in Triples |->
     IF /\ mcastLoop
        /\ pkt.hops < MaxHops
        /\ conns[l] # 0
        /\ IsOpen(conns[l])
        /\ sock[conns[l]].group = sock[fd].group
        /\ sock[conns[l]].iface = sock[fd].iface
        /\ sock[conns[l]].port = sock[fd].port
        /\ inbox[l] = NoPkt
       THEN [data |-> pkt.data, hops |-> pkt.hops + 1]
       ELSE inbox[l]]

\* (mutant) a failed Write ends the goroutine
WriteErrorReturns(nxt) == "exitErr"

\* lines 295-297: a failed Write is logged and the loop goes on
WriteErrorPc(nxt) == LoopPc(nxt)

\* log.Printf under a condition (298-301, 304-307)
LogIf(lines, cond, line) == IF cond THEN Append(lines, line) ELSE lines

\* lines 289-302: one Write to a peer's send socket, which succeeds or fails
\* (on a socket that is not open it can only fail), and the loop's advance
WFanoutWrite(w) ==
  /\ Alive
  /\ wpc[w] = "fanout"
  /\ LET fd == SenderFor(w, otherIfIdx[w])
         nxt == NextPeer(w, otherIfIdx[w] + 1)
     IN  /\ \E ok \in BOOLEAN :
              /\ ok => IsOpen(fd)
              /\ wrote' = [wrote EXCEPT ![w] =
                             Append(@, [fd |-> fd, data |-> packet[w].data])]
              /\ werr' = [werr EXCEPT ![w] = @ \/ ~ok]
              /\ logged' = [logged EXCEPT ![w] = LogIf(@, ok /\ verbose, "Forwarded")]
              /\ inbox' = IF ok THEN LoopedBack(fd, packet[w]) ELSE inbox
              /\ wpc' = [wpc EXCEPT ![w] = IF ok THEN LoopPc(nxt) ELSE WriteErrorPc(nxt)]
         /\ otherIfIdx' = [otherIfIdx EXCEPT ![w] = nxt]
  /\ UNCHANGED <<cfgVars, mainVars, sockVars, sigVars, lconn, buf, dgram, packet, wg>>

\* lines 304-309: the "Received" line (verbose), then the next iteration
WLogReceived(w) ==
  /\ Alive
  /\ wpc[w] = "logrecv"
  /\ wpc' = [wpc EXCEPT ![w] = "select"]
  /\ packet' = [packet EXCEPT ![w] = NoPkt]
  /\ wrote' = [wrote EXCEPT ![w] = << >>]
  /\ werr' = [werr EXCEPT ![w] = FALSE]
  /\ otherIfIdx' = [otherIfIdx EXCEPT ![w] = 0]
  /\ dgram' = [dgram EXCEPT ![w] = << >>]
  /\ logged' = [logged EXCEPT ![w] = LogIf(@, verbose, "Received")]
  /\ UNCHANGED <<cfgVars, mainVars, sockVars, sigVars, lconn, buf, wg, inbox>>

WorkerStep(w) ==
  \/ WSelect(w)
  \/ WReadTimeout(w)
  \/ WReadError(w)
  \/ WReadData(w)
  \/ WReadLooped(w)
  \/ WFanoutWrite(w)
  \/ WLogReceived(w)

MainStep ==
  \/ MainDestPorts
  \/ InitGroupFail
  \/ InitIfaceFail
  \/ InitListenFail
  \/ InitDialFail
  \/ InitOpenPair
  \/ InitReturn
  \/ Spawn
  \/ SpawnReturn
  \/ HandleShutdown
  \/ MainWait
  \/ CloseStep
  \/ CloseReturn
  \/ MainAllDone

(* --------------------------- specification ----------------------------- *)
Next ==
  \/ MainDestPorts
  \/ InitGroupFail
  \/ InitIfaceFail
  \/ InitListenFail
  \/ InitDialFail
  \/ InitOpenPair
  \/ InitReturn
  \/ Spawn
  \/ SpawnReturn
  \/ HandleShutdown
  \/ MainWait
  \/ CloseStep
  \/ CloseReturn
  \/ MainAllDone
  \/ HandlerRun
  \/ Signal
  \/ \E w \in Triples : WSelect(w)
  \/ \E w \in Triples : WReadTimeout(w)
  \/ \E w \in Triples : WReadError(w)
  \/ \E w \in Triples : WReadData(w)
  \/ \E w \in Triples : WReadLooped(w)
  \/ \E w \in Triples : WFanoutWrite(w)
  \/ \E w \in Triples : WLogReceived(w)

Spec == Init /\ [][Next]_vars

(* A smaller family of start states for the properties of whole behaviours *)
LiveInit == Init /\ NumTriples <= MaxSmallWorkers

AllTriples == (1..MaxGroups) \X (1..MaxIfaces) \X (1..MaxPorts)

\* The Go scheduler runs every runnable goroutine, and every timed receive
\* returns: each goroutine that can take a step eventually takes one.  Nothing
\* is assumed of the operating system's signals.
Fairness ==
  /\ WF_vars(MainStep)
  /\ WF_vars(HandlerRun)
  /\ \A w \in AllTriples : WF_vars(w \in Triples /\ WorkerStep(w))

LiveSpec == LiveInit /\ [][Next]_vars /\ Fairness

(* main's call of parsePorts alone, for all the port strings of ParseInputs *)
ParseNext == MainParsePorts

ParseSpec == ParseInit /\ [][ParseNext]_vars

(* --------------------------- properties -------------------------------- *)
Exited(w) == wpc[w] \in {"exitCancel", "exitErr"}
CloseBegun == mainPc \in {"close", "alldone", "exited"}
SignalReceived == mainPc = "killed" \/ sigChan > 0 \/ handlerPc = "done"
AllClosed == \A t \in Triples : {conns[t], senders[t]} \subseteq closedFds
\* the send sockets of the other interfaces of w's group and port
PeerSenders(w) == {senders[<<w[1], j, w[3]>>] : j \in (1..numIfaces) \ {w[2]}}
WrittenFds(w) == {wrote[w][k].fd : k \in 1..Len(wrote[w])}

\* C1: a goroutine that has finished the fan-out of a datagram has called Write
\* exactly once on the send socket of every other interface of its group and port;
\* at no time has it written twice to one socket, to its own interface's send
\* socket, or to a socket of another group or port.
C1_FanOutExactlyOnce ==
  \A w \in Triples :
    /\ \A k, m \in 1..Len(wrote[w]) : wrote[w][k].fd = wrote[w][m].fd => k = m
    /\ WrittenFds(w) \subseteq PeerSenders(w)
    /\ wrote[w] # << >> => senders[w] \notin WrittenFds(w)
    /\ \A t \in Triples :
         (t[1] # w[1] \/ t[3] # w[3]) => WrittenFds(w) \cap {conns[t], senders[t]} = {}
    /\ wpc[w] = "logrecv" =>
         /\ WrittenFds(w) = PeerSenders(w)
         /\ Len(wrote[w]) = numIfaces - 1

\* three interfaces: the goroutine of the first one has written to the other two
C1_Witness ==
  \E w \in Triples :
    /\ numIfaces = 3 /\ w[2] = 1
    /\ wpc[w] = "logrecv"
    /\ Len(wrote[w]) = 2
    /\ wrote[w][1].fd = senders[<<w[1], 2, w[3]>>]
    /\ wrote[w][2].fd = senders[<<w[1], 3, w[3]>>]

\* C2: once main has begun closeConnections (or any socket is closed) every
\* goroutine has exited and none takes a step any more, and main returns only
\* when every listen and send socket of the registry is closed.
C2_JoinBeforeClose ==
  /\ [](\A w \in Triples : (CloseBegun \/ closedFds # {}) => Exited(w))
  /\ [](mainPc = "exited" => AllClosed)
  /\ [][CloseBegun => UNCHANGED <<workerVars, inbox>>]_vars

C2_Witness ==
  /\ mainPc = "exited"
  /\ NumTriples = 4
  /\ AllClosed
  /\ \E w, v \in Triples : wpc[w] = "exitCancel" /\ wpc[v] = "exitErr"

\* C3: once the cancellation flag is set, eventually every goroutine has exited,
\* every socket of the registry is closed and main has returned (status 0).
C3_GracefulShutdown ==
  cancelled ~> (/\ mainPc = "exited"
                /\ ExitStatus = 0
                /\ AllClosed
                /\ \A w \in Triples : Exited(w))

C3_Witness ==
  /\ cancelled
  /\ mainPc = "exited"
  /\ \E w \in Triples : wpc[w] = "exitCancel"

\* C4: the step in which a goroutine exits on a read error changes nothing but
\* that goroutine's position and the WaitGroup counter; and while some goroutine
\* has so exited, every running goroutine still has its listen socket open, can
\* take its next step, and, when its next Write is to a send socket (that of the
\* failed goroutine's triple included), finds that socket open.
C4_ReadErrorConfined ==
  /\ [][\A w \in Triples :
          (wpc[w] = "read" /\ wpc'[w] = "exitErr") =>
            /\ \A v \in Triples \ {w} : wpc'[v] = wpc[v]
            /\ UNCHANGED <<cfgVars, mainVars, sockVars, sigVars, lconn, buf, dgram,
                           otherIfIdx, packet, wrote, werr, logged, inbox>>]_vars
  /\ [](\A w, v \in Triples :
          (wpc[w] = "exitErr" /\ Running(v)) =>
            /\ IsOpen(lconn[v])
            /\ IsOpen(senders[w])
            /\ wpc[v] = "fanout" => IsOpen(SenderFor(v, otherIfIdx[v]))
            /\ ENABLED WorkerStep(v))

\* a goroutine has exited on a read error and another is about to write the
\* datagram it received to the send socket of the failed goroutine's triple
C4_Witness ==
  \E w, v \in Triples :
    /\ wpc[w] = "exitErr"
    /\ Running(v) /\ wpc[v] = "fanout"
    /\ SenderFor(v, otherIfIdx[v]) = senders[w]
    /\ IsOpen(senders[w])

\* C5 as stated: when goroutines have exited on read errors, no socket is closed
\* and the process does not end before a termination signal was received.
C5_NoExitWithoutSignal ==
  ((\E w \in Triples : wpc[w] = "exitErr") /\ (closedFds # {} \/ CloseBegun \/ ~Alive))
    => SignalReceived

\* C5, amended: while at least one goroutine has not exited on a read error, no
\* socket is closed and the process does not end before a termination signal was
\* received; when every goroutine has exited (on read errors only, too), the
\* WaitGroup counter is zero, so that wg.Wait returns and main goes on to close
\* the registry and return.
C5_NoExitWhileAWorkerIsLeft ==
  /\ ((\E w \in Triples : wpc[w] = "exitErr")
        /\ (\E v \in Triples : wpc[v] # "exitErr")
        /\ (closedFds # {} \/ CloseBegun \/ ~Alive))
       => SignalReceived
  /\ (\A w \in Triples : Exited(w)) => wg = 0

\* one goroutine exited on a read error, the other ran until the signal: the
\* process ended only after the signal
C5_Witness ==
  /\ mainPc = "exited"
  /\ \E w, v \in Triples : wpc[w] = "exitErr" /\ wpc[v] = "exitCancel"
  /\ SignalReceived

\* C6: a goroutine for which a Write of the current datagram has failed is
\* still in its loop (it never exits from the fan-out), goes on to call Write for
\* every other interface, and then returns to the top of its receive loop.
C6_WriteErrorAbsorbed ==
  /\ [](\A w \in Triples :
          werr[w] =>
            /\ wpc[w] \in {"fanout", "logrecv"}
            /\ wpc[w] = "fanout" => Len(wrote[w]) < numIfaces - 1
            /\ wpc[w] = "logrecv" => WrittenFds(w) = PeerSenders(w))
  /\ [][\A w \in Triples :
          /\ wpc[w] = "fanout" => wpc'[w] \in {"fanout", "logrecv"}
          /\ wpc[w] = "logrecv" => wpc'[w] \in {"logrecv", "select"}]_vars

\* three interfaces: the first Write has failed and the goroutine is in its loop,
\* at the second peer
C6_Witness ==
  \E w \in Triples :
    /\ numIfaces = 3
    /\ werr[w]
    /\ wpc[w] = "fanout"
    /\ Len(wrote[w]) = 1
    /\ otherIfIdx[w] = NextPeer(w, NextPeer(w, 1) + 1)

\* C7: when ListenMulticastUDP or DialUDP has failed, the process has ended with
\* a non-zero status at that triple (nothing was opened after the failure), and
\* no goroutine was started and no datagram forwarded.
C7_ProvisioningFailFast ==
  fatalMsg \in {"listen", "dial"} =>
    /\ mainPc = "fatal"
    /\ ExitStatus > 0
    /\ Len(sock) = 2 * (mainIdx - 1) + (IF fatalMsg = "dial" THEN 1 ELSE 0)
    /\ wg = 0
    /\ \A w \in Triples : wpc[w] = "none" /\ wrote[w] = << >> /\ packet[w] = NoPkt

\* the open of a later triple fails, with sockets of earlier triples already open
C7_Witness ==
  /\ fatalMsg = "dial"
  /\ mainPc = "fatal"
  /\ mainIdx > 1
  /\ \E t \in Triples : conns[t] # 0

\* C8: while a goroutine is running, the registry holds for every triple its own
\* listen socket and its own send socket, all open, and these are all the sockets
\* the process has created.
C8_RegistryCompleteWhileRunning ==
  (\E w \in Triples : Running(w)) =>
    /\ Len(sock) = 2 * NumTriples
    /\ closedFds = {}
    /\ \A t \in Triples :
         /\ IsOpen(conns[t]) /\ sock[conns[t]] = ListenSock(t)
         /\ IsOpen(senders[t]) /\ sock[senders[t]] = SendSock(t)
    /\ \A t, u \in Triples :
         /\ conns[t] # senders[u]
         /\ t # u => (conns[t] # conns[u] /\ senders[t] # senders[u])

\* one goroutine is still running after another has exited, main is waiting
C8_Witness ==
  /\ mainPc = "wait"
  /\ \E w, v \in Triples : Running(w) /\ wpc[w] = "fanout" /\ Exited(v)

\* C9 as stated: no two goroutines read the same listen socket, and no two
\* goroutines write to the same send socket.
C9_NoSocketShared ==
  \A w, v \in Triples :
    (w # v /\ wpc[w] # "none" /\ wpc[v] # "none") =>
      /\ lconn[w] # lconn[v]
      /\ WrittenFds(w) \cap WrittenFds(v) = {}

\* C9, amended: a listen socket is read only by the goroutine of its own triple;
\* the send socket of triple (g,j,p) is written only by the goroutines (g,i,p)
\* with i # j, of which there are numIfaces - 1 (so two goroutines that write to
\* the same send socket have the same group and port and different interfaces).
C9_SharedOnlyAmongPeers ==
  /\ \A w, v \in Triples :
       (wpc[w] # "none" /\ wpc[v] # "none") =>
         /\ lconn[w] = conns[w]
         /\ sock[lconn[w]].kind = "listen"
         /\ w # v => lconn[w] # lconn[v]
  /\ \A t \in Triples :
       LET writers == {w \in Triples : senders[t] \in WrittenFds(w)} IN
         /\ writers \subseteq {w \in Triples : w[1] = t[1] /\ w[3] = t[3] /\ w[2] # t[2]}
         /\ Cardinality(writers) <= numIfaces - 1

\* three interfaces: the goroutines of the first and of the third interface have
\* both written to the second interface's send socket
C9_Witness ==
  \E w, v \in Triples :
    /\ w[2] = 1 /\ v[2] = 3
    /\ senders[<<w[1], 2, w[3]>>] \in WrittenFds(w) \cap WrittenFds(v)
    /\ IsOpen(senders[<<w[1], 2, w[3]>>])

\* C10: no goroutine forwards a datagram that another goroutine of this process
\* wrote (every datagram being fanned out came from another host).
C10_NoReRelay ==
  \A w \in Triples : packet[w] # NoPkt => packet[w].hops = 0

\* C11: after signal.Notify the cancellation flag is set only by the handler
\* goroutine's one step, which takes a signal from sigChan; once set it stays set;
\* the handler goroutine has then finished, so no later signal sets it again; a
\* signal delivered after signal.Notify changes nothing but the one-slot buffer
\* of sigChan (which no one reads once the handler has finished), and it never
\* ends the process.
C11_CancelOnceLaterSignalsInert ==
  /\ [][cancelled => cancelled']_vars
  /\ [][(~cancelled /\ cancelled') =>
          (notified /\ sigChan > 0 /\ handlerPc = "wait" /\ handlerPc' = "done")]_vars
  /\ [](handlerPc = "done" <=> cancelled)
  /\ [](handlerPc = "done" => ~ENABLED HandlerRun)
  /\ [][sigChan' > sigChan =>
          (notified /\ UNCHANGED <<cfgVars, mainVars, sockVars, cancelled, notified,
                                    handlerPc, workerVars, inbox>>)]_vars
  /\ [][notified => (mainPc' = "killed" <=> mainPc = "killed")]_vars
  /\ [](notified => mainPc # "killed")

\* a second signal was delivered during the shutdown the first one started (it sits
\* in sigChan), and main has returned with every socket closed
C11_Witness ==
  /\ cancelled
  /\ handlerPc = "done"
  /\ sigChan = 1
  /\ mainPc = "exited"
  /\ AllClosed

\* C12: every send socket of the registry is connected to its triple's group and, when
\* -d is not given, to the listen port of its port index, and when -d is given, to
\* the port at the same index of the -d list.
C12_DestPortPositional ==
  \A t \in Triples :
    senders[t] # 0 =>
      /\ sock[senders[t]].kind = "send"
      /\ sock[senders[t]].group = groups[t[1]]
      /\ sock[senders[t]].port = (IF destGiven THEN destIn[t[3]] ELSE ports[t[3]])
      /\ ~destGiven => sock[senders[t]].port = sock[conns[t]].port

\* two ports, no -d: the goroutines run and the send socket of the second port
\* targets the second listen port
C12_Witness ==
  /\ ~destGiven
  /\ numPorts = 2
  /\ mainPc = "wait"
  /\ \A t \in Triples : senders[t] # 0
  /\ \E t \in Triples : t[3] = 2 /\ sock[senders[t]].port = ports[2]

\* C13: when -d is given with a number of ports other than the number of listen
\* ports, no socket is ever opened and no goroutine started, and main goes no
\* further than the check of the lengths, where it ends the process with
\* log.Fatalf (status 1).
C13_LengthMismatchFatal ==
  (destGiven /\ Len(destIn) # Len(ports)) =>
    /\ sock = << >>
    /\ wg = 0
    /\ \A w \in Triples : wpc[w] = "none" /\ conns[w] = 0 /\ senders[w] = 0
    /\ mainPc \in {"destPorts", "fatal", "killed"}
    /\ mainPc = "fatal" => (fatalMsg = "destports" /\ ExitStatus = 1)
    /\ ~ENABLED InitOpenPair

\* one destination port too many: the process has ended in the length check
C13_Witness ==
  /\ destGiven
  /\ Len(destIn) = Len(ports) + 1
  /\ mainPc = "fatal"
  /\ fatalMsg = "destports"
  /\ sock = << >>

\* C14: when the process has ended on a group literal that does not parse or on an
\* interface that is not found, at whatever position of its list, no socket has
\* been opened and no goroutine has been started.
C14_NoPartialStart ==
  fatalMsg \in {"group", "iface"} =>
    /\ mainPc = "fatal"
    /\ sock = << >>
    /\ \A t \in Triples : conns[t] = 0 /\ senders[t] = 0
    /\ wg = 0
    /\ \A w \in Triples : wpc[w] = "none"

\* C15: every Write a goroutine makes for a datagram carries exactly the bytes the
\* network delivered in that datagram, as many and the same, whatever earlier
\* receives left in the scratch buffer; this for every length from 0 to the
\* length of the buffer.
C15_PayloadExact ==
  \A w \in Triples :
    /\ packet[w] # NoPkt => packet[w].data = dgram[w]
    /\ \A k \in 1..Len(wrote[w]) :
         /\ Len(wrote[w][k].data) = Len(dgram[w])
         /\ wrote[w][k].data = dgram[w]
    /\ Len(dgram[w]) <= BufferLen

\* one goroutine has forwarded an empty datagram while its buffer still holds the
\* bytes of an earlier one; another has forwarded one that fills the buffer
C15_Witness ==
  \E w, v \in Triples :
    /\ wpc[w] = "logrecv" /\ ~werr[w] /\ Len(wrote[w]) = 1
    /\ dgram[w] = << >> /\ wrote[w][1].data = << >>
    /\ buf[w][1] = 7
    /\ wpc[v] = "logrecv" /\ ~werr[v] /\ Len(wrote[v]) = 1
    /\ Len(wrote[v][1].data) = BufferLen

\* C16: among the verbose log lines a goroutine writes for one datagram, no
\* "Forwarded" line comes before the "Received" line.
C16_ReceivedLoggedFirst ==
  \A w \in Triples :
    \A i, j \in 1..Len(logged[w]) :
      (logged[w][i] = "Forwarded" /\ logged[w][j] = "Received") => j < i

\* what C17 calls a well-formed port: one or more decimal digits and nothing
\* else, with a value from 1 to 65535
WellFormedPort(p) ==
  /\ Len(p) > 0
  /\ \A i \in 1..Len(p) : IsDigit(p[i])
  /\ DecValue(p) \in 1..PortMax

\* C17: parsePorts gives an error exactly when some string of the list is not a
\* well-formed port, and otherwise the values of the strings, in their order.
C17_ParsePortsStrict ==
  mainPc # "parsePorts" =>
    /\ mainPc = "fatal" <=> (\E k \in 1..Len(portStrs) : ~WellFormedPort(portStrs[k]))
    /\ mainPc # "fatal" =>
         ports = [k \in 1..Len(portStrs) |-> DecValue(portStrs[k])]

\* C18: a goroutine exits only from the select with the cancellation flag set, or
\* from a receive that returned an error other than a timeout; a receive ends in
\* a timeout, an error or a datagram; a timeout leaves the goroutine, its listen
\* socket and the WaitGroup as they were and takes it back to the select, from
\* which, with the flag unset, its one possible step is the next receive on the
\* same, still open, listen socket.
C18_ExitOnlyOnCancelOrReadError ==
  /\ [][\A w \in Triples :
          /\ (wpc[w] # "exitCancel" /\ wpc'[w] = "exitCancel") =>
               (wpc[w] = "select" /\ cancelled)
          /\ (wpc[w] # "exitErr" /\ wpc'[w] = "exitErr") => wpc[w] = "read"
          /\ (wpc[w] = "read" /\ wpc'[w] # "read") =>
               wpc'[w] \in {"select", "exitErr", "fanout", "logrecv"}
          /\ (wpc[w] = "read" /\ wpc'[w] = "select") =>
               (lconn'[w] = lconn[w] /\ wg' = wg /\ UNCHANGED <<sockVars, cancelled>>)
          /\ (wpc[w] = "select" /\ ~cancelled /\ wpc'[w] # "select") =>
               (wpc'[w] = "read" /\ lconn'[w] = lconn[w] /\ IsOpen(lconn[w]))]_vars
  /\ [](\A w \in Triples :
          /\ Running(w) => lconn[w] = conns[w]
          /\ (Running(w) /\ wpc[w] = "select") => ENABLED WSelect(w)
          /\ (Running(w) /\ wpc[w] = "read") => ENABLED WReadTimeout(w))

\* after the signal: one goroutine has exited on the flag, one had exited on a
\* read error, and a third is in a receive that can still time out
C18_Witness ==
  /\ cancelled
  /\ mainPc = "wait"
  /\ \E w, v, u \in Triples :
       /\ wpc[w] = "exitCancel"
       /\ wpc[v] = "exitErr"
       /\ wpc[u] = "read" /\ IsOpen(lconn[u])

\* C19: a goroutine leaves the fan-out of a datagram only past its last peer, with
\* a Write made for every other interface, and only then goes back to the select
\* and the next receive; it takes a datagram only in a receive and with no datagram
\* in hand; every Write it makes is of the datagram in hand, added after the
\* earlier ones; between datagrams it holds none.
C19_FanOutBeforeNextReceive ==
  /\ [][\A w \in Triples :
          /\ (wpc[w] \in {"fanout", "logrecv"} /\ wpc'[w] \notin {"fanout", "logrecv"}) =>
               /\ wpc[w] = "logrecv" /\ wpc'[w] = "select"
               /\ Len(wrote[w]) = numIfaces - 1
               /\ WrittenFds(w) = PeerSenders(w)
          /\ (packet'[w] # packet[w] /\ packet'[w] # NoPkt) =>
               (wpc[w] = "read" /\ packet[w] = NoPkt /\ wrote[w] = << >>)
          /\ (wrote'[w] # wrote[w] /\ wrote'[w] # << >>) =>
               /\ wpc[w] = "fanout" /\ packet'[w] = packet[w]
               /\ Len(wrote'[w]) = Len(wrote[w]) + 1
               /\ SubSeq(wrote'[w], 1, Len(wrote[w])) = wrote[w]
               /\ wrote'[w][Len(wrote'[w])].data = packet[w].data]_vars
  /\ [](\A w \in Triples :
          /\ wpc[w] \in {"none", "select", "read"} => (packet[w] = NoPkt /\ wrote[w] = << >>)
          /\ wpc[w] \in {"fanout", "logrecv"} => packet[w] # NoPkt)

\* a goroutine is about to write its second datagram (an empty one) to its peer:
\* the first one (its bytes are still in the buffer) was written before
C19_Witness ==
  \E w \in Triples :
    /\ wpc[w] = "fanout"
    /\ wrote[w] = << >>
    /\ packet[w] # NoPkt /\ packet[w].data = << >>
    /\ buf[w][1] = 7

\* C20: whenever a forwarding goroutine is running or a socket is open, signal.Notify
\* is in effect, and the process is never ended by a signal while it has sockets
\* or goroutines.
C20_HandlerBeforeWorkers ==
  /\ (\E w \in Triples : Running(w)) => notified
  /\ (Alive /\ \E fd \in 1..Len(sock) : IsOpen(fd)) => notified
  /\ mainPc = "killed" => (sock = << >> /\ \A w \in Triples : wpc[w] = "none")

\* C21: with the cancellation flag set no goroutine starts a receive (the only
\* receive after the flag is the one a goroutine was in when it was set): from
\* the select the goroutine's one possible step is its exit, wherever it came to
\* the select from; a goroutine that holds a datagram goes on through its fan-out
\* to the end, and exits only from the select, holding none.
C21_AtMostOneReceiveAfterCancel ==
  /\ [][\A w \in Triples :
          /\ (cancelled /\ wpc'[w] = "read") => wpc[w] = "read"
          /\ (cancelled /\ wpc[w] = "select" /\ wpc'[w] # "select") =>
               wpc'[w] = "exitCancel"
          /\ (cancelled /\ wpc[w] = "fanout") => wpc'[w] \in {"fanout", "logrecv"}
          /\ (cancelled /\ wpc[w] = "fanout" /\ wpc'[w] = "logrecv") =>
               Len(wrote'[w]) = numIfaces - 1
          /\ (cancelled /\ wpc[w] = "logrecv") => wpc'[w] \in {"logrecv", "select"}
          /\ (wpc[w] # "exitCancel" /\ wpc'[w] = "exitCancel") =>
               (wpc[w] = "select" /\ packet[w] = NoPkt /\ wrote[w] = << >>)]_vars
  /\ [](\A w \in Triples :
          (cancelled /\ Running(w)) =>
            /\ wpc[w] = "select" => (ENABLED WSelect(w) /\ ~ENABLED WReadData(w))
            /\ wpc[w] = "fanout" => ENABLED WFanoutWrite(w)
            /\ wpc[w] = "logrecv" => ENABLED WLogReceived(w))

\* the flag is set; one goroutine has exited on it, another, of three interfaces,
\* holds a datagram and has written it to the first of its two peers
C21_Witness ==
  /\ cancelled
  /\ numIfaces = 3
  /\ \E w, v \in Triples :
       /\ wpc[v] = "exitCancel"
       /\ wpc[w] = "fanout" /\ Len(wrote[w]) = 1 /\ packet[w] # NoPkt

\* what a goroutine keeps to itself: its position and the locals of its function
Locals(w) ==
  <<wpc[w], lconn[w], buf[w], dgram[w], otherIfIdx[w], packet[w], wrote[w], werr[w],
    logged[w]>>

\* a step of goroutine w: after its start, every step of its changes its position
\* or its locals, and no step of main or of another goroutine does
StepOf(w) == wpc[w] # "none" /\ Locals(w)' # Locals(w)

\* C22 as stated: a step of a goroutine leaves the registry and the state of every
\* socket as they are, and changes nothing that another goroutine or main can
\* see: the cancellation flag, which it only reads, is all they share.
C22_OnlyFlagShared ==
  [][\A w \in Triples :
       StepOf(w) =>
         /\ UNCHANGED <<cfgVars, mainVars, sockVars, sigVars>>
         /\ \A v \in Triples \ {w} : Locals(v)' = Locals(v)
         /\ wg' = wg]_vars

\* C22, amended: goroutines run only with the registry complete; a step of a
\* goroutine leaves the registry, the state of every socket, the configuration,
\* main and the cancellation flag as they are, and the locals of every other
\* goroutine; of what goroutines share it changes the WaitGroup counter, which
\* it lowers by one in the step in which it exits and in no other, and, on a
\* host with multicast loopback, the receive queues of listen sockets: those of
\* its peers by a Write, its own by a receive.
C22_RegistryFrozenWgShared ==
  /\ [][\A w \in Triples :
          StepOf(w) =>
            /\ UNCHANGED <<cfgVars, mainVars, sockVars, sigVars>>
            /\ \A v \in Triples \ {w} : Locals(v)' = Locals(v)
            /\ wg' = (IF Exited(w)' THEN wg - 1 ELSE wg)
            /\ inbox' # inbox =>
                 /\ mcastLoop
                 /\ \/ wpc[w] = "fanout"
                    \/ wpc[w] = "read" /\ \A v \in Triples \ {w} : inbox'[v] = inbox[v]]_vars
  /\ [](\A w \in Triples :
          wpc[w] # "none" =>
            /\ mainPc \notin {"destPorts", "init"}
            /\ \A t \in Triples : conns[t] # 0 /\ senders[t] # 0)

\* two goroutines have exited, one on the flag and one on a read error, each
\* lowering the counter, while a third, still counted, is in its fan-out
C22_Witness ==
  /\ wg = 1
  /\ mainPc = "wait"
  /\ \E w, v, u \in Triples :
       /\ wpc[w] = "exitCancel"
       /\ wpc[v] = "exitErr"
       /\ wpc[u] = "fanout"

====
